---- MODULE Spec2Model ----
(***************************************************************************)
(* A model of steinbock/preprocessing/imc.py: the generator                *)
(* try_preprocess_images_from_disk (pairing of MCD acquisitions with txt   *)
(* exports, recovery from a txt export, standalone txt images) and the     *)
(* panel constructors (create_panel_from_*_files, create_panel_from_imc_   *)
(* panel, _clean_panel).                                                   *)
(*                                                                         *)
(* Strings whose characters matter (file names, stems, channel ids) are    *)
(* sequences of one-character strings.  An Optional value is a sequence of *)
(* length 0 (None) or 1 (the value).                                       *)
(***************************************************************************)
EXTENDS Naturals, Sequences, FiniteSets

VARIABLES
    \* inputs of try_preprocess_images_from_disk
    mcd_files, txt_files, channel_names, txt_type,
    \* its control state: the position of the generator and its iterators
    pc, mcd_queue, mcd_file, acq_queue, acquisition,
    \* its locals
    unmatched_txt_files, matched_txt_file, src_channels, channel_ind, img,
    recovered, txt_file,
    \* the file handles that are open
    open_mcd, open_txt,
    \* what the consumer and the logger have seen
    yielded, log, propagated,
    \* history: which events happened (never read by the program)
    attempted, visited, pairs, popped, reads,
    \* the panel constructors: position, input and result
    panel_pc, panel_in, panel_out,
    \* history: the table create_panel_from_imc_panel holds after the merge
    \* of the rows of a channel, and the table _clean_panel holds after its
    \* sort (never read by the program)
    panel_merged, panel_sorted

genVars == <<mcd_files, txt_files, channel_names, txt_type, pc, mcd_queue,
             mcd_file, acq_queue, acquisition, unmatched_txt_files,
             matched_txt_file, src_channels, channel_ind, img, recovered,
             txt_file, open_mcd, open_txt, yielded, log, propagated,
             attempted, visited, pairs, popped, reads>>
panelVars == <<panel_pc, panel_in, panel_out, panel_merged, panel_sorted>>
vars == <<genVars, panelVars>>

---------------------------------------------------------------------------
(* Bounds of the model *)

\* acquisitions held by the MCD file with the longest stem
MaxAcq == 2
\* longest list of txt files given to the generator
MaxTxt == 2
\* most rows of an IMC panel file
MaxRows == 2
\* most channel rows of the acquisitions (txt files) a panel is made from
MaxFileRows == 3

---------------------------------------------------------------------------
(* Optional values and strings *)

None == <<>>
Some(x) == <<x>>
IsNone(o) == o = <<>>
Get(o) == o[1]

\* code points of the characters the model uses (Python compares str by
\* code point)
Ord(c) ==
    CASE c = "." -> 46
      [] c = "0" -> 48 [] c = "1" -> 49 [] c = "2" -> 50 [] c = "3" -> 51
      [] c = "4" -> 52 [] c = "5" -> 53 [] c = "6" -> 54 [] c = "7" -> 55
      [] c = "8" -> 56 [] c = "9" -> 57
      [] c = "C" -> 67 [] c = "I" -> 73 [] c = "Y" -> 89
      [] c = "_" -> 95
      [] c = "a" -> 97 [] c = "b" -> 98 [] c = "d" -> 100 [] c = "n" -> 110
      [] c = "r" -> 114 [] c = "t" -> 116 [] c = "x" -> 120

\* s < t for Python str
StrLess(s, t) ==
    \E i \in 1..(Len(t)) :
        /\ i <= Len(s) + 1
        /\ \A k \in 1..(i - 1) : s[k] = t[k]
        /\ \/ i = Len(s) + 1
           \/ i <= Len(s) /\ Ord(s[i]) < Ord(t[i])

DigitChar(d) ==
    CASE d = 0 -> "0" [] d = 1 -> "1" [] d = 2 -> "2" [] d = 3 -> "3"
      [] d = 4 -> "4" [] d = 5 -> "5" [] d = 6 -> "6" [] d = 7 -> "7"
      [] d = 8 -> "8" [] d = 9 -> "9"

\* str(n) of a natural number below 100, as the f-string formats it
IntToStr(n) ==
    IF n < 10 THEN <<DigitChar(n)>>
    ELSE <<DigitChar(n \div 10), DigitChar(n % 10)>>

IsPrefix(s, t) == Len(s) <= Len(t) /\ SubSeq(t, 1, Len(s)) = s

\* list.remove(x): the list without the first occurrence of x
RemoveFirst(s, x) ==
    LET i == CHOOSE j \in 1..Len(s) :
                 s[j] = x /\ \A k \in 1..(j - 1) : s[k] # x
    IN SubSeq(s, 1, i - 1) \o SubSeq(s, i + 1, Len(s))

SeqToSet(s) == {s[i] : i \in 1..Len(s)}

\* the sequences of distinct elements of S of length at most n
DistinctSeqs(S, n) ==
    UNION {{s \in [1..k -> S] : \A i, j \in 1..k : i # j => s[i] # s[j]}
           : k \in 0..n}

---------------------------------------------------------------------------
(* The files on disk *)

Stem_a == <<"a">>
Stem_ab == <<"a", "b">>
\* an MCD file is known by its stem (Path(mcd_file).stem)
McdUniverse == {Stem_a, Stem_ab}

\* the acquisition ids of an MCD file, in the order of f_mcd.slides and
\* slide.acquisitions (the two loops only nest; they are one iteration)
\* file ab holds the acquisitions 1..MaxAcq, file a the single acquisition
\* MaxAcq
Acquisitions(f) ==
    IF f = Stem_ab THEN [i \in 1..MaxAcq |-> i] ELSE <<MaxAcq>>

DotTxt == <<".", "t", "x", "t">>
\* the name of the txt export of an acquisition
TxtName(stem, id) == stem \o <<"_">> \o IntToStr(id) \o DotTxt
\* a txt file is known by its name (Path(txt_file).name): the exports of
\* the acquisitions (ab, 1), (ab, MaxAcq) and (a, MaxAcq), and a second
\* file that carries the stem ab and the id 1
TxtUniverse ==
    { TxtName(Stem_ab, 1), TxtName(Stem_ab, MaxAcq), TxtName(Stem_a, MaxAcq),
      Stem_ab \o <<"_", "x", "_", "1">> \o DotTxt }

\* the channel names a file may hold, and those a caller may ask for
ChannelLists == { <<"c1", "c2">>, <<"c1">> }
ChannelNamesArgs == { None, Some(<<"c2", "c1">>) }

---------------------------------------------------------------------------
(* The pure helpers of try_preprocess_images_from_disk *)

\* sorted(mcd_files, key=stem, reverse=True) ordered the other way round
SortedAscending(files) ==
    LET RECURSIVE Ins(_, _)
        Ins(s, x) ==
            IF s = <<>> THEN <<x>>
            ELSE IF StrLess(x, Head(s)) THEN <<x>> \o s
            ELSE <<Head(s)>> \o Ins(Tail(s), x)
        RECURSIVE Go(_, _)
        Go(done, rest) ==
            IF rest = <<>> THEN done
            ELSE Go(Ins(done, Head(rest)), Tail(rest))
    IN Go(<<>>, files)

\* sorted(mcd_files, key=lambda f: Path(f).stem, reverse=True): descending
\* by stem, files of equal stem in their input order
SortedMcdFiles(files) ==
    LET RECURSIVE Ins(_, _)
        Ins(s, x) ==
            IF s = <<>> THEN <<x>>
            ELSE IF StrLess(Head(s), x) THEN <<x>> \o s
            ELSE <<Head(s)>> \o Ins(Tail(s), x)
        RECURSIVE Go(_, _)
        Go(done, rest) ==
            IF rest = <<>> THEN done
            ELSE Go(Ins(done, Head(rest)), Tail(rest))
    IN Go(<<>>, files)

\* re.compile(rf"{stem}.*_0*{id}.txt").match(name): the pattern is anchored
\* at the start of the name only; "." stands for any character.  The stems
\* of the model hold no character that is special in a pattern.
PatternMatches(stem, id, name) ==
    LET d == IntToStr(id)
        n == Len(name)
    IN /\ IsPrefix(stem, name)
       /\ \E p \in (Len(stem) + 1)..n :
            /\ name[p] = "_"
            /\ \E z \in 0..(n - p) :
                 LET q == p + z + 1 IN
                 /\ \A k \in 1..z : name[p + k] = "0"
                 /\ q + Len(d) + 3 <= n
                 /\ SubSeq(name, q, q + Len(d) - 1) = d
                 /\ SubSeq(name, q + Len(d) + 1, q + Len(d) + 3)
                        = <<"t", "x", "t">>

\* filtered_txt_files: the txt files whose name matches the pattern
Candidates(f, id, files) ==
    SelectSeq(files, LAMBDA t : PatternMatches(f, id, t))

\* _match_txt_file with the single-match test dropped: the first candidate
MatchFirstCandidate(f, id, files, type) ==
    LET filtered == Candidates(f, id, files)
    IN [raises |-> FALSE, warns |-> FALSE,
        match |-> IF Len(filtered) >= 1 THEN Some(filtered[1]) ELSE None]

\* _match_txt_file: the only remaining txt file whose name matches, else
\* None.  With several candidates a warning is logged whose argument is
\* ", ".join(filtered_txt_files); str.join raises TypeError when the items
\* are pathlib.Path objects (as list_txt_files returns them), not str.
_match_txt_file(f, id, files, type) ==
    LET filtered == Candidates(f, id, files)
    IN [raises |-> Len(filtered) > 1 /\ type = "Path",
        warns |-> Len(filtered) > 1 /\ type = "str",
        match |-> IF Len(filtered) = 1 THEN Some(filtered[1]) ELSE None]

\* list.index(x), counted from 0
IndexOf(names, x) ==
    (CHOOSE j \in 1..Len(names) :
        names[j] = x /\ \A k \in 1..(j - 1) : names[k] # x) - 1

\* _get_channel_indices that never reports a missing channel
IndicesIgnoringMissing(names, wanted) ==
    LET present == SelectSeq(wanted, LAMBDA c : c \in SeqToSet(names))
    IN [isstr |-> FALSE, name |-> "",
        ind |-> [i \in 1..Len(present) |-> IndexOf(names, present[i])]]

\* _get_channel_indices: the first requested name the file lacks (a str),
\* else the list of the indices of the requested names
_get_channel_indices(names, wanted) ==
    LET missing == SelectSeq(wanted, LAMBDA c : c \notin SeqToSet(names))
    IN IF missing # <<>>
       THEN [isstr |-> TRUE, name |-> missing[1], ind |-> <<>>]
       ELSE [isstr |-> FALSE, name |-> "",
             ind |-> [i \in 1..Len(wanted) |-> IndexOf(names, wanted[i])]]

\* whether a file lacks a requested channel (channel_name not in
\* acquisition.channel_names), as a fact about the file
Lacks(names, wanted) == \E i \in 1..Len(wanted) : wanted[i] \notin SeqToSet(names)

\* what is recorded of a file's channel names once they were looked at
ChannelFact(file, acq, names, wanted) ==
    <<"channels", file, acq,
      IF Lacks(names, wanted) THEN "lacking" ELSE "complete">>

\* recovered after a restore, left at False
RecoveredUnset == FALSE

\* recovered = True, once the txt file was read and holds the channels
RecoveredAfterRestore == TRUE

\* f.read_acquisition(...): the image of a file, with the planes it holds
\* (None: all planes of the file, when nobody looked at its channel names)
ReadImage(src, file, acq, names) ==
    [src |-> src, file |-> file, acq |-> acq, planes |-> names,
     preprocessed |-> FALSE]

\* img[channel_ind, :, :]
SelectPlanes(image, ind) ==
    IF IsNone(ind) THEN image
    ELSE [image EXCEPT !.planes =
            Some([i \in 1..Len(Get(ind).ind) |->
                    Get(image.planes)[Get(ind).ind[i] + 1]])]

\* preprocess_image: float32, optional hot pixel filter, image dtype
preprocess_image(image) == [image EXCEPT !.preprocessed = TRUE]

\* MCDFile.__exit__ / TXTFile.__exit__ with the handle left open
ExitLeaksHandle(handles, f) == handles

\* MCDFile.__exit__ / TXTFile.__exit__: the handle is closed when the
\* with-block is left (normally, by continue, or by an exception)
WithExit(handles, f) == handles \ {f}

\* unmatched_txt_files with the matched file kept in it
KeepMatched(unmatched, m) == unmatched

\* if matched_txt_file is not None: unmatched_txt_files.remove(...)
RemoveMatched(unmatched, m) ==
    IF IsNone(m) THEN unmatched ELSE RemoveFirst(unmatched, Get(m))

\* the list with its first element left in it
PopNothing(list) == list

\* unmatched_txt_files.pop(0): what is left of the list
PopFirst(list) == Tail(list)

\* the yielded tuple with recovered set whenever a txt file was matched
TupleRecoveredIfMatched(f, a, image, m, rec) ==
    [file |-> f, acquisition |-> a, img |-> image, recovery_file |-> m,
     recovered |-> ~IsNone(m)]

\* the tuple yielded for an acquisition or a standalone txt file
YieldTuple(f, a, image, m, rec) ==
    [file |-> f, acquisition |-> a, img |-> image, recovery_file |-> m,
     recovered |-> rec]

---------------------------------------------------------------------------
(* try_preprocess_images_from_disk *)

\* the panel constructors do not run
PanelIdle ==
    /\ panel_pc = "idle"
    /\ panel_in = <<>>
    /\ panel_out = <<>>
    /\ panel_merged = <<>>
    /\ panel_sorted = <<>>

\* the generator is created: unmatched_txt_files = list(txt_files), and the
\* MCD files wait in descending order of stem
Init ==
    /\ mcd_files \in DistinctSeqs(McdUniverse, Cardinality(McdUniverse))
    /\ txt_files \in DistinctSeqs(TxtUniverse, MaxTxt)
    /\ channel_names \in ChannelNamesArgs
    /\ txt_type \in {"str", "Path"}
    /\ pc = "for_mcd"
    /\ mcd_queue = SortedMcdFiles(mcd_files)
    /\ mcd_file = None
    /\ acq_queue = <<>>
    /\ acquisition = None
    /\ unmatched_txt_files = txt_files
    /\ matched_txt_file = None
    /\ src_channels = None
    /\ channel_ind = None
    /\ img = None
    /\ recovered = FALSE
    /\ txt_file = None
    /\ open_mcd = {}
    /\ open_txt = {}
    /\ yielded = <<>>
    /\ log = {}
    /\ propagated = FALSE
    /\ attempted = {}
    /\ visited = {}
    /\ pairs = {}
    /\ popped = <<>>
    /\ reads = {}
    /\ PanelIdle

inputVars == <<mcd_files, txt_files, channel_names, txt_type>>

\* the except clause of an MCD file with the exception raised again
ExceptMcdReraise(f, lg) ==
    /\ log' = lg
    /\ pc' = "done"
    /\ propagated' = TRUE

\* except: logger.exception(f"Error reading file {mcd_file}"), and the loop
\* goes on with the next MCD file
ExceptMcd(f, lg) ==
    /\ log' = lg \cup {<<"exception", "error_reading_file", f, None>>}
    /\ pc' = "for_mcd"
    /\ propagated' = propagated

\* except: logger.exception(f"Error reading file {txt_file}"), and the loop
\* goes on with the next unmatched txt file
ExceptTxt(f, lg) ==
    /\ log' = lg \cup {<<"exception", "error_reading_file", f, None>>}
    /\ pc' = "while_txt"
    /\ propagated' = propagated

\* for mcd_file in sorted(...): try: with MCDFile(mcd_file) as f_mcd
OpenMcd ==
    /\ pc = "for_mcd"
    /\ mcd_queue # <<>>
    /\ LET f == Head(mcd_queue) IN
        /\ mcd_queue' = Tail(mcd_queue)
        /\ mcd_file' = Some(f)
        /\ attempted' = attempted \cup {f}
        /\ \/ /\ open_mcd' = open_mcd \cup {f}
              /\ acq_queue' = Acquisitions(f)
              /\ pc' = "for_acq"
              /\ UNCHANGED <<log, propagated, reads>>
           \/ /\ reads' = reads \cup {<<"mcd", f, None, "error">>}
              /\ ExceptMcd(f, log)
              /\ UNCHANGED <<open_mcd, acq_queue>>
    /\ UNCHANGED <<inputVars, acquisition, unmatched_txt_files,
                   matched_txt_file, src_channels, channel_ind, img,
                   recovered, txt_file, open_txt, yielded, visited, pairs,
                   popped, panelVars>>

\* for acquisition in slide.acquisitions: match a txt file, remove it from
\* the unmatched ones, look up the requested channels
MatchAcq ==
    /\ pc = "for_acq"
    /\ acq_queue # <<>>
    /\ LET f == Get(mcd_file)
           a == Head(acq_queue)
           m == _match_txt_file(f, a, unmatched_txt_files, txt_type)
           lg == IF m.warns
                 THEN log \cup {<<"warning", "ambiguous", f, Some(a)>>}
                 ELSE log
           rd == IF Len(Candidates(f, a, unmatched_txt_files)) > 1
                 THEN reads \cup {<<"match", f, Some(a), "ambiguous">>}
                 ELSE reads
       IN
        /\ acquisition' = Some(a)
        /\ acq_queue' = Tail(acq_queue)
        /\ visited' = visited \cup {<<f, a>>}
        /\ \/ /\ m.raises
              /\ reads' = rd \cup {<<"match", f, Some(a), "error">>}
              /\ ExceptMcd(f, log)
              /\ open_mcd' = WithExit(open_mcd, f)
              /\ UNCHANGED <<unmatched_txt_files, matched_txt_file,
                             src_channels, channel_ind, pairs>>
           \/ /\ ~m.raises
              /\ matched_txt_file' = m.match
              /\ unmatched_txt_files' =
                    RemoveMatched(unmatched_txt_files, m.match)
              /\ pairs' = IF IsNone(m.match) THEN pairs
                          ELSE pairs \cup {<<Get(m.match), f, a>>}
              /\ UNCHANGED <<open_mcd, propagated>>
              /\ \/ /\ IsNone(channel_names)
                    /\ channel_ind' = None
                    /\ src_channels' = None
                    /\ log' = lg
                    /\ pc' = "read_acq"
                    /\ reads' = rd
                 \/ /\ ~IsNone(channel_names)
                    /\ \E names \in ChannelLists :
                        LET r == _get_channel_indices(names,
                                                      Get(channel_names))
                        IN /\ src_channels' = Some(names)
                           /\ channel_ind' = Some(r)
                           /\ reads' = rd \cup
                                 {ChannelFact(f, Some(a), names,
                                              Get(channel_names))}
                           /\ IF r.isstr
                              THEN /\ log' = lg \cup
                                       {<<"warning", "channel_not_found",
                                          f, Some(a)>>}
                                   /\ pc' = "for_acq"
                              ELSE /\ log' = lg
                                   /\ pc' = "read_acq"
    /\ UNCHANGED <<inputVars, mcd_queue, mcd_file, img, recovered, txt_file,
                   open_txt, yielded, attempted, popped, panelVars>>

\* img = None; recovered = False; try: img = f_mcd.read_acquisition(...)
\* except IOError: warn, and restore from the matched txt file if any
ReadAcq ==
    /\ pc = "read_acq"
    /\ LET f == Get(mcd_file)
           a == Get(acquisition)
       IN
        /\ recovered' = FALSE
        /\ \/ /\ img' = Some(ReadImage("mcd", f, acquisition, src_channels))
              /\ reads' = reads \cup {<<"mcd", f, acquisition, "ok">>}
              /\ pc' = "yield_acq"
              /\ UNCHANGED <<log, propagated, open_mcd>>
           \/ /\ img' = None
              /\ reads' = reads \cup {<<"mcd", f, acquisition, "ioerror">>}
              /\ log' = log
                    \cup {<<"warning", "error_reading_acquisition", f,
                            acquisition>>}
                    \cup (IF IsNone(matched_txt_file) THEN {}
                          ELSE {<<"warning", "restoring",
                                  Get(matched_txt_file), acquisition>>})
              /\ pc' = IF IsNone(matched_txt_file) THEN "for_acq"
                       ELSE "recover_open"
              /\ UNCHANGED <<propagated, open_mcd>>
           \/ /\ img' = None
              /\ reads' = reads \cup {<<"mcd", f, acquisition, "error">>}
              /\ ExceptMcd(f, log)
              /\ open_mcd' = WithExit(open_mcd, f)
    /\ UNCHANGED <<inputVars, mcd_queue, mcd_file, acq_queue, acquisition,
                   unmatched_txt_files, matched_txt_file, src_channels,
                   channel_ind, txt_file, open_txt, yielded, attempted,
                   visited, pairs, popped, panelVars>>

\* try: with TXTFile(matched_txt_file) as f_txt   (after an IOError of the
\* MCD read)
RecoverOpen ==
    /\ pc = "recover_open"
    /\ LET f == Get(mcd_file)
           t == Get(matched_txt_file)
       IN
        \/ /\ open_txt' = open_txt \cup {t}
           /\ pc' = "recover_read"
           /\ UNCHANGED <<log, propagated, open_mcd, reads>>
        \/ /\ reads' = reads \cup {<<"txt", t, None, "ioerror">>}
           /\ log' = log \cup {<<"error", "error_reading_file", t, None>>}
           /\ pc' = "for_acq"
           /\ UNCHANGED <<propagated, open_mcd, open_txt>>
        \/ /\ reads' = reads \cup {<<"txt", t, None, "error">>}
           /\ ExceptMcd(f, log)
           /\ open_mcd' = WithExit(open_mcd, f)
           /\ UNCHANGED open_txt
    /\ UNCHANGED <<inputVars, mcd_queue, mcd_file, acq_queue, acquisition,
                   unmatched_txt_files, matched_txt_file, src_channels,
                   channel_ind, img, recovered, txt_file, yielded,
                   attempted, visited, pairs, popped, panelVars>>

\* img = f_txt.read_acquisition(); the requested channels are looked up in
\* the txt file; recovered = True
RecoverRead ==
    /\ pc = "recover_read"
    /\ LET f == Get(mcd_file)
           t == Get(matched_txt_file)
       IN
        /\ open_txt' = WithExit(open_txt, t)
        /\ \/ /\ IsNone(channel_names)
              /\ reads' = reads \cup {<<"txt", t, None, "ok">>}
              /\ img' = Some(ReadImage("txt", t, None, None))
              /\ recovered' = RecoveredAfterRestore
              /\ pc' = "yield_acq"
              /\ UNCHANGED <<log, propagated, open_mcd, src_channels,
                             channel_ind>>
           \/ /\ ~IsNone(channel_names)
              /\ UNCHANGED <<propagated, open_mcd>>
              /\ \E names \in ChannelLists :
                  LET r == _get_channel_indices(names, Get(channel_names))
                  IN /\ reads' = reads \cup
                          {<<"txt", t, None, "ok">>,
                           ChannelFact(t, None, names, Get(channel_names))}
                     /\ img' = Some(ReadImage("txt", t, None, Some(names)))
                     /\ src_channels' = Some(names)
                     /\ channel_ind' = Some(r)
                     /\ IF r.isstr
                        THEN /\ log' = log \cup
                                 {<<"warning", "channel_not_found", t, None>>}
                             /\ recovered' = recovered
                             /\ pc' = "for_acq"
                        ELSE /\ log' = log
                             /\ recovered' = RecoveredAfterRestore
                             /\ pc' = "yield_acq"
           \/ /\ reads' = reads \cup {<<"txt", t, None, "ioerror">>}
              /\ log' = log \cup {<<"error", "error_reading_file", t, None>>}
              /\ pc' = "for_acq"
              /\ UNCHANGED <<propagated, open_mcd, img, recovered,
                             src_channels, channel_ind>>
           \/ /\ reads' = reads \cup {<<"txt", t, None, "error">>}
              /\ ExceptMcd(f, log)
              /\ open_mcd' = WithExit(open_mcd, f)
              /\ UNCHANGED <<img, recovered, src_channels, channel_ind>>
    /\ UNCHANGED <<inputVars, mcd_queue, mcd_file, acq_queue, acquisition,
                   unmatched_txt_files, matched_txt_file, txt_file, yielded,
                   attempted, visited, pairs, popped, panelVars>>

\* if img is not None: select the planes, preprocess, yield; del img
YieldAcq ==
    /\ pc = "yield_acq"
    /\ ~IsNone(img)
    /\ yielded' = Append(yielded,
            YieldTuple(Get(mcd_file), acquisition,
                       preprocess_image(SelectPlanes(Get(img), channel_ind)),
                       matched_txt_file, recovered))
    /\ img' = None
    /\ pc' = "for_acq"
    /\ UNCHANGED <<inputVars, mcd_queue, mcd_file, acq_queue, acquisition,
                   unmatched_txt_files, matched_txt_file, src_channels,
                   channel_ind, recovered, txt_file, open_mcd, open_txt,
                   log, propagated, attempted, visited, pairs, popped,
                   reads, panelVars>>

\* the acquisitions of the file are exhausted: the with-block is left
CloseMcd ==
    /\ pc = "for_acq"
    /\ acq_queue = <<>>
    /\ open_mcd' = WithExit(open_mcd, Get(mcd_file))
    /\ pc' = "for_mcd"
    /\ UNCHANGED <<inputVars, mcd_queue, mcd_file, acq_queue, acquisition,
                   unmatched_txt_files, matched_txt_file, src_channels,
                   channel_ind, img, recovered, txt_file, open_txt, yielded,
                   log, propagated, attempted, visited, pairs, popped,
                   reads, panelVars>>

\* the MCD files are exhausted
EndMcdLoop ==
    /\ pc = "for_mcd"
    /\ mcd_queue = <<>>
    /\ pc' = "while_txt"
    /\ UNCHANGED <<inputVars, mcd_queue, mcd_file, acq_queue, acquisition,
                   unmatched_txt_files, matched_txt_file, src_channels,
                   channel_ind, img, recovered, txt_file, open_mcd, open_txt,
                   yielded, log, propagated, attempted, visited, pairs,
                   popped, reads, panelVars>>

\* while len(unmatched_txt_files) > 0: txt_file = unmatched_txt_files.pop(0)
\* try: channel_ind = None; with TXTFile(txt_file) as f
PopTxt ==
    /\ pc = "while_txt"
    /\ unmatched_txt_files # <<>>
    /\ LET t == Head(unmatched_txt_files) IN
        /\ txt_file' = Some(t)
        /\ unmatched_txt_files' = PopFirst(unmatched_txt_files)
        /\ popped' = Append(popped, t)
        /\ channel_ind' = None
        /\ \/ /\ open_txt' = open_txt \cup {t}
              /\ pc' = "txt_read"
              /\ UNCHANGED <<log, propagated, reads>>
           \/ /\ reads' = reads \cup {<<"txt", t, None, "error">>}
              /\ ExceptTxt(t, log)
              /\ UNCHANGED open_txt
    /\ UNCHANGED <<inputVars, mcd_queue, mcd_file, acq_queue, acquisition,
                   matched_txt_file, src_channels, img, recovered, open_mcd,
                   yielded, attempted, visited, pairs, panelVars>>

\* the requested channels are looked up in the txt file, then
\* img = f.read_acquisition()
TxtRead ==
    /\ pc = "txt_read"
    /\ LET t == Get(txt_file) IN
        /\ open_txt' = WithExit(open_txt, t)
        /\ \/ /\ IsNone(channel_names)
              /\ img' = Some(ReadImage("txt", t, None, None))
              /\ reads' = reads \cup {<<"txt", t, None, "ok">>}
              /\ pc' = "yield_txt"
              /\ UNCHANGED <<log, propagated, src_channels, channel_ind>>
           \/ /\ ~IsNone(channel_names)
              /\ \E names \in ChannelLists :
                  LET r == _get_channel_indices(names, Get(channel_names))
                  IN /\ src_channels' = Some(names)
                     /\ channel_ind' = Some(r)
                     /\ propagated' = propagated
                     /\ IF r.isstr
                        THEN /\ log' = log \cup
                                 {<<"warning", "channel_not_found", t, None>>}
                             /\ pc' = "while_txt"
                             /\ reads' = reads \cup
                                   {ChannelFact(t, None, names,
                                                Get(channel_names))}
                             /\ UNCHANGED img
                        ELSE /\ img' = Some(ReadImage("txt", t, None,
                                                      Some(names)))
                             /\ reads' = reads \cup
                                   {<<"txt", t, None, "ok">>,
                                    ChannelFact(t, None, names,
                                                Get(channel_names))}
                             /\ log' = log
                             /\ pc' = "yield_txt"
           \/ /\ reads' = reads \cup {<<"txt", t, None, "error">>}
              /\ ExceptTxt(t, log)
              /\ UNCHANGED <<img, src_channels, channel_ind>>
    /\ UNCHANGED <<inputVars, mcd_queue, mcd_file, acq_queue, acquisition,
                   unmatched_txt_files, matched_txt_file, recovered,
                   txt_file, open_mcd, yielded, attempted, visited, pairs,
                   popped, panelVars>>

\* select the planes, preprocess, yield Path(txt_file), None, img, None,
\* False; del img
YieldTxt ==
    /\ pc = "yield_txt"
    /\ yielded' = Append(yielded,
            YieldTuple(Get(txt_file), None,
                       preprocess_image(SelectPlanes(Get(img), channel_ind)),
                       None, FALSE))
    /\ img' = None
    /\ pc' = "while_txt"
    /\ UNCHANGED <<inputVars, mcd_queue, mcd_file, acq_queue, acquisition,
                   unmatched_txt_files, matched_txt_file, src_channels,
                   channel_ind, recovered, txt_file, open_mcd, open_txt,
                   log, propagated, attempted, visited, pairs, popped,
                   reads, panelVars>>

\* no unmatched txt file is left: the generator is exhausted
Finish ==
    /\ pc = "while_txt"
    /\ unmatched_txt_files = <<>>
    /\ pc' = "done"
    /\ UNCHANGED <<inputVars, mcd_queue, mcd_file, acq_queue, acquisition,
                   unmatched_txt_files, matched_txt_file, src_channels,
                   channel_ind, img, recovered, txt_file, open_mcd, open_txt,
                   yielded, log, propagated, attempted, visited, pairs,
                   popped, reads, panelVars>>

Next ==
    \/ OpenMcd
    \/ MatchAcq
    \/ ReadAcq
    \/ RecoverOpen
    \/ RecoverRead
    \/ YieldAcq
    \/ CloseMcd
    \/ EndMcdLoop
    \/ PopTxt
    \/ TxtRead
    \/ YieldTxt
    \/ Finish

Spec == Init /\ [][Next]_vars

\* the consumer iterates over the generator until it is exhausted, and
\* every statement that is reached is executed
FairSpec == Spec /\ WF_vars(Next)

---------------------------------------------------------------------------
(* Panels: tables of rows (channel, name, keep, ilastik, deepcell).  A cell *)
(* is an Optional value, None for a missing value (NA) and for a column    *)
(* the table does not have; cols names the columns the table has.  A       *)
(* boolean ilastik cell is 0 or 1 (the csv's false and true values).       *)

Row(c, n, k, i) ==
    [channel |-> c, name |-> n, keep |-> k, ilastik |-> i, deepcell |-> None]

Y89 == <<"Y", "8", "9">>
In113 == <<"I", "n", "1", "1", "3">>
Cd113 == <<"C", "d", "1", "1", "3">>
ChannelIds == {Y89, In113, Cd113}
PanelNames == {<<"A">>, <<"B">>}
\* channel labels of acquisitions and txt files; a label may end in a number
FileLabels == PanelNames \cup {<<"A", " ", "1">>}

IsDigit(c) == c \in {"0", "1", "2", "3", "4", "5", "6", "7", "8", "9"}
DigitValue(c) == Ord(c) - 48

\* pd.to_numeric(s.str.replace("[^0-9]", "", regex=True)): the number the
\* digits of the channel id form, a missing value when it has no digit
ChannelNumber(c) ==
    LET digits == SelectSeq(c, IsDigit)
        RECURSIVE Val(_)
        Val(d) == IF d = <<>> THEN 0
                  ELSE 10 * Val(SubSeq(d, 1, Len(d) - 1))
                       + DigitValue(d[Len(d)])
    IN IF digits = <<>> THEN None ELSE Some(Val(digits))

\* a missing key sorts last
KeyLeq(x, y) == IsNone(y) \/ (~IsNone(x) /\ Get(x) <= Get(y))

\* the orders sort_values may leave the rows in: every permutation that is
\* ascending in the key (the default sort is not stable: rows of equal key
\* may end in any order); order[i] is the old position of the new row i
SortOrders(rows) ==
    LET n == Len(rows) IN
    { o \in [1..n -> 1..n] :
        /\ \A i, j \in 1..n : i # j => o[i] # o[j]
        /\ \A i \in 1..(n - 1) :
              KeyLeq(ChannelNumber(Get(rows[o[i]].channel)),
                     ChannelNumber(Get(rows[o[i + 1]].channel))) }

\* panel.sort_values("channel", key=...): the rows in the order the sort
\* gave them
SortValues(rows, order) == [i \in 1..Len(rows) |-> rows[order[i]]]

\* groupby("name").cumcount(): how many earlier rows carry the same name
CumCount(rows, i) ==
    Cardinality({j \in 1..(i - 1) : rows[j].name = rows[i].name})

\* panel["name"].duplicated(keep=False)
NameDuplicated(rows, i) ==
    \E j \in 1..Len(rows) : j # i /\ rows[j].name = rows[i].name

\* _clean_panel, the rows left in the order the sort gave them: names that
\* several rows carry get the suffixes " 1", " 2", ...; keep defaults to
\* True, ilastik to 1, 2, ... over the kept rows, deepcell to missing
_clean_panel(panel, order) ==
    LET n == Len(panel.rows)
        sorted == SortValues(panel.rows, order)
        named == [i \in 1..n |->
            IF NameDuplicated(sorted, i) /\ ~IsNone(sorted[i].name)
            THEN [sorted[i] EXCEPT !.name =
                    Some(Get(sorted[i].name) \o <<" ">>
                         \o IntToStr(CumCount(sorted, i) + 1))]
            ELSE sorted[i]]
        kept == [i \in 1..n |->
            IF "keep" \in panel.cols THEN named[i]
            ELSE [named[i] EXCEPT !.keep = Some(TRUE)]]
        KeptBefore(i) ==
            Cardinality({j \in 1..i : kept[j].keep = Some(TRUE)})
        numbered == [i \in 1..n |->
            IF "ilastik" \in panel.cols THEN kept[i]
            ELSE [kept[i] EXCEPT !.ilastik =
                    IF kept[i].keep = Some(TRUE) THEN Some(KeptBefore(i))
                    ELSE None]]
    IN [cols |-> {"channel", "name", "keep", "ilastik", "deepcell"},
        rows |-> numbered]

\* pd.concat(panels, ignore_index=True)
Concat(tables) ==
    LET RECURSIVE Go(_)
        Go(ts) == IF ts = <<>> THEN <<>> ELSE Head(ts) \o Go(Tail(ts))
    IN Go(tables)

\* panel.drop_duplicates(ignore_index=True): a row equal to an earlier row
\* in every column (channel and name) is dropped
DropDuplicates(rows) ==
    LET keep == {i \in 1..Len(rows) : \A j \in 1..(i - 1) : rows[j] # rows[i]}
        RECURSIVE Go(_)
        Go(i) == IF i > Len(rows) THEN <<>>
                 ELSE (IF i \in keep THEN <<rows[i]>> ELSE <<>>) \o Go(i + 1)
    IN Go(1)

\* the table create_panel_from_mcd_files and create_panel_from_txt_files
\* hand to _clean_panel: the (channel, label) rows of all acquisitions
\* (files), concatenated and freed of duplicate rows
ConcatPanel(tables) ==
    [cols |-> {"channel", "name"}, rows |-> DropDuplicates(Concat(tables))]

\* " / ".join(names)
JoinNames(names) ==
    LET RECURSIVE Go(_)
        Go(ns) == IF ns = <<>> THEN <<>>
                  ELSE IF Len(ns) = 1 THEN ns[1]
                  ELSE ns[1] \o <<" ", "/", " ">> \o Go(Tail(ns))
    IN Go(names)

\* g["name"].dropna().unique(): the distinct non-missing names of the rows
\* of a channel, in the order of their first occurrence
UniqueNames(rows, c) ==
    LET RECURSIVE Go(_)
        Go(i) ==
            IF i > Len(rows) THEN <<>>
            ELSE (IF /\ rows[i].channel = c
                     /\ ~IsNone(rows[i].name)
                     /\ \A j \in 1..(i - 1) :
                           rows[j].channel = c => rows[j].name # rows[i].name
                  THEN <<Get(rows[i].name)>> ELSE <<>>) \o Go(i + 1)
    IN Go(1)

\* g[col].any() over the rows of a channel (missing values skipped)
AnyTrue(rows, c, col) ==
    \E i \in 1..Len(rows) :
        /\ rows[i].channel = c
        /\ IF col = "keep" THEN rows[i].keep = Some(TRUE)
           ELSE ~IsNone(rows[i].ilastik) /\ Get(rows[i].ilastik) # 0

\* the table with the rows of a channel left as they are
MergeNothing(panel) == panel

\* for _, g in panel.groupby("channel"): every row of a channel gets the
\* joined names, and the keep and ilastik flags any row of the channel has
MergeGroups(panel) ==
    [panel EXCEPT !.rows = [i \in 1..Len(panel.rows) |->
        LET r == panel.rows[i] IN
        [r EXCEPT
            !.name = Some(JoinNames(UniqueNames(panel.rows, r.channel))),
            !.keep = IF "keep" \in panel.cols
                     THEN Some(AnyTrue(panel.rows, r.channel, "keep"))
                     ELSE r.keep,
            !.ilastik = IF "ilastik" \in panel.cols
                        THEN Some(IF AnyTrue(panel.rows, r.channel, "ilastik")
                                  THEN 1 ELSE 0)
                        ELSE r.ilastik]]]

\* the first non-missing value of a column among the rows of a channel
FirstCell(rows, c, col) ==
    LET Cell(r) == CASE col = "name" -> r.name
                     [] col = "keep" -> r.keep
                     [] col = "ilastik" -> r.ilastik
                     [] col = "deepcell" -> r.deepcell
        has == {i \in 1..Len(rows) :
                   rows[i].channel = c /\ ~IsNone(Cell(rows[i]))}
    IN IF has = {} THEN None
       ELSE Cell(rows[CHOOSE i \in has : \A j \in has : i <= j])

\* the channel ids of the rows, ascending as str (the order of the groups)
SortedChannels(rows) ==
    LET S == {rows[i].channel : i \in 1..Len(rows)}
        RECURSIVE Go(_)
        Go(rest) ==
            IF rest = {} THEN <<>>
            ELSE LET m == CHOOSE x \in rest :
                            \A y \in rest \ {x} : StrLess(Get(x), Get(y))
                 IN <<m>> \o Go(rest \ {m})
    IN Go(S)

\* the merged table without the aggregation: every row is kept
KeepAllRows(panel) == panel

\* panel.groupby(panel["channel"].values).aggregate("first"): one row per
\* channel id, the groups in ascending order of the id, each column the
\* first non-missing value of the group
AggregateFirst(panel) ==
    LET cs == SortedChannels(panel.rows) IN
    [panel EXCEPT !.rows = [i \in 1..Len(cs) |->
        [channel |-> cs[i],
         name |-> FirstCell(panel.rows, cs[i], "name"),
         keep |-> FirstCell(panel.rows, cs[i], "keep"),
         ilastik |-> FirstCell(panel.rows, cs[i], "ilastik"),
         deepcell |-> FirstCell(panel.rows, cs[i], "deepcell")]]]

\* the check of the required columns alone
RaisesForMissingColumn(panel) ==
    "channel" \notin panel.cols \/ "name" \notin panel.cols

\* SteinbockIMCPreprocessingException: a required column (channel, name) is
\* missing, or the channel, keep or ilastik column holds a missing value
ImcPanelRaises(panel) ==
    \/ "channel" \notin panel.cols
    \/ "name" \notin panel.cols
    \/ \E i \in 1..Len(panel.rows) :
          \/ IsNone(panel.rows[i].channel)
          \/ "keep" \in panel.cols /\ IsNone(panel.rows[i].keep)
          \/ "ilastik" \in panel.cols /\ IsNone(panel.rows[i].ilastik)

\* the panel with the ilastik cells _clean_panel left in it
KeepIlastikCells(panel) == panel

\* the end of create_panel_from_imc_panel: the rows whose ilastik cell is
\* set and not 0 are numbered 1, 2, ... in row order, the others get a
\* missing value
NumberIlastik(panel) ==
    LET Mask(i) == /\ ~IsNone(panel.rows[i].ilastik)
                   /\ Get(panel.rows[i].ilastik) # 0
    IN [panel EXCEPT !.rows = [i \in 1..Len(panel.rows) |->
          [panel.rows[i] EXCEPT !.ilastik =
              IF Mask(i)
              THEN Some(Cardinality({j \in 1..i : Mask(j)}))
              ELSE None]]]

---------------------------------------------------------------------------
(* The panel constructors as operations *)

\* the generator does not run
GenIdle ==
    /\ mcd_files = <<>> /\ txt_files = <<>> /\ channel_names = None
    /\ txt_type = "str" /\ pc = "idle" /\ mcd_queue = <<>>
    /\ mcd_file = None /\ acq_queue = <<>> /\ acquisition = None
    /\ unmatched_txt_files = <<>> /\ matched_txt_file = None
    /\ src_channels = None /\ channel_ind = None /\ img = None
    /\ recovered = FALSE /\ txt_file = None /\ open_mcd = {}
    /\ open_txt = {} /\ yielded = <<>> /\ log = {} /\ propagated = FALSE
    /\ attempted = {} /\ visited = {} /\ pairs = {} /\ popped = <<>>
    /\ reads = {}

\* the channel tables of acquisitions (MCD) or of txt files: channel ids
\* and labels, the ids of one table distinct
FileRows == {Row(Some(c), Some(n), None, None) :
                c \in ChannelIds, n \in FileLabels}
\* rows cut into tables after the positions in cuts
SplitRows(rows, cuts) ==
    LET RECURSIVE Go(_, _)
        Go(i, cur) ==
            IF i > Len(rows) THEN <<>>
            ELSE IF i \in cuts \/ i = Len(rows)
                 THEN <<Append(cur, rows[i])>> \o Go(i + 1, <<>>)
                 ELSE Go(i + 1, Append(cur, rows[i]))
    IN Go(1, <<>>)
\* every table holds a channel id once
DistinctChannels(ts) ==
    \A t \in 1..Len(ts) :
        \A i, j \in 1..Len(ts[t]) :
            i # j => ts[t][i].channel # ts[t][j].channel

\* IMC panel files: the columns channel and name, with or without the
\* columns keep and ilastik; names may be missing
ImcCells(cols, col, values) == IF col \in cols THEN values ELSE {None}
ImcRows(cols) ==
    {Row(c, n, k, i) :
        c \in {Some(x) : x \in ChannelIds},
        n \in {Some(x) : x \in PanelNames} \cup {None},
        k \in ImcCells(cols, "keep", {Some(TRUE), Some(FALSE)}),
        i \in ImcCells(cols, "ilastik", {Some(0), Some(1)})}
ImcColumnSets ==
    {{"channel", "name"} \cup opt : opt \in SUBSET {"keep", "ilastik"}}
\* ... and the files the function rejects: one row, a required column
\* missing or a missing value in the channel, keep or ilastik column
ImcRejected ==
    {[cols |-> {"channel", "name", "keep", "ilastik"} \ {gone},
      rows |-> <<Row(IF gone = "channel" \/ na = "channel"
                     THEN None ELSE Some(Y89),
                     IF gone = "name" THEN None ELSE Some(<<"A">>),
                     IF na = "keep" THEN None ELSE Some(TRUE),
                     IF na = "ilastik" THEN None ELSE Some(1))>>] :
        gone \in {"channel", "name", "none"},
        na \in {"channel", "keep", "ilastik", "none"}}
        \ {[cols |-> {"channel", "name", "keep", "ilastik"},
            rows |-> <<Row(Some(Y89), Some(<<"A">>), Some(TRUE), Some(1))>>]}
\* a panel constructor is about to be called on some input
InitPanel ==
    /\ GenIdle
    /\ panel_pc = "call"
    /\ panel_out = None
    /\ panel_merged = None
    /\ panel_sorted = None
    /\ \/ \E k \in 0..MaxFileRows :
            \E rows \in [1..k -> FileRows] :
                \E cuts \in SUBSET (1..(k - 1)) :
                    \E kind \in {"mcd", "txt"} :
                        /\ DistinctChannels(SplitRows(rows, cuts))
                        /\ panel_in = [kind |-> kind,
                                       tables |-> SplitRows(rows, cuts),
                                       cols |-> {"channel", "name"}]
       \/ \E cols \in ImcColumnSets :
            \E k \in 0..MaxRows :
                \E rows \in [1..k -> ImcRows(cols)] :
                    panel_in = [kind |-> "imc", tables |-> <<rows>>,
                                cols |-> cols]
       \/ \E p \in ImcRejected :
            panel_in = [kind |-> "imc", tables |-> <<p.rows>>,
                        cols |-> p.cols]

Returned(panel) == Some([raised |-> FALSE, panel |-> panel])
Raised == Some([raised |-> TRUE, panel |-> [cols |-> {}, rows |-> <<>>]])

\* create_panel_from_mcd_files / create_panel_from_txt_files (they differ
\* in where the channel tables come from); pd.concat raises ValueError when
\* there is no table at all
CreatePanelFromFiles(kind) ==
    /\ panel_pc = "call"
    /\ panel_in.kind = kind
    /\ IF panel_in.tables = <<>>
       THEN /\ panel_out' = Raised
            /\ panel_pc' = "raised"
            /\ UNCHANGED panel_sorted
       ELSE LET panel == ConcatPanel(panel_in.tables) IN
            \E order \in SortOrders(panel.rows) :
                /\ panel_sorted' = Some(SortValues(panel.rows, order))
                /\ panel_out' = Returned(_clean_panel(panel, order))
                /\ panel_pc' = "returned"
    /\ UNCHANGED <<panel_in, panel_merged, genVars>>

create_panel_from_mcd_files == CreatePanelFromFiles("mcd")

create_panel_from_txt_files == CreatePanelFromFiles("txt")

\* create_panel_from_imc_panel: checks, merge of the rows of a channel, one
\* row per channel, _clean_panel, numbering of the ilastik channels
create_panel_from_imc_panel ==
    /\ panel_pc = "call"
    /\ panel_in.kind = "imc"
    /\ LET input == [cols |-> panel_in.cols, rows |-> panel_in.tables[1]] IN
       IF ImcPanelRaises(input)
       THEN /\ panel_out' = Raised
            /\ panel_pc' = "raised"
            /\ UNCHANGED <<panel_merged, panel_sorted>>
       ELSE LET panel == AggregateFirst(MergeGroups(input)) IN
            \E order \in SortOrders(panel.rows) :
                /\ panel_merged' = Some(panel.rows)
                /\ panel_sorted' = Some(SortValues(panel.rows, order))
                /\ panel_out' =
                      Returned(NumberIlastik(_clean_panel(panel, order)))
                /\ panel_pc' = "returned"
    /\ UNCHANGED <<panel_in, genVars>>

NextPanel ==
    \/ create_panel_from_mcd_files
    \/ create_panel_from_txt_files
    \/ create_panel_from_imc_panel

SpecPanel == InitPanel /\ [][NextPanel]_vars

---------------------------------------------------------------------------
(* Properties of try_preprocess_images_from_disk *)

\* the positions of the yielded tuples of an acquisition (of a standalone
\* txt file when a is None)
TuplesFor(f, a) ==
    {i \in 1..Len(yielded) :
        yielded[i].file = f /\ yielded[i].acquisition = a}

Count(s, x) == Cardinality({i \in 1..Len(s) : s[i] = x})

\* the generator is inside the iteration of acquisition a of MCD file f
InProgress(f, a) ==
    /\ pc \in {"read_acq", "recover_open", "recover_read", "yield_acq"}
    /\ mcd_file = Some(f)
    /\ acquisition = Some(a)

\* every MCD file and every txt file is still waiting or was taken up, and
\* nothing waits once the generator is exhausted
NothingDropped ==
    /\ SeqToSet(mcd_files) \subseteq attempted \cup SeqToSet(mcd_queue)
    /\ \A t \in SeqToSet(txt_files) :
          \/ t \in SeqToSet(unmatched_txt_files)
          \/ t \in SeqToSet(popped)
          \/ \E p \in pairs : p[1] = t
    /\ pc = "done" => mcd_queue = <<>> /\ unmatched_txt_files = <<>>

\* the acquisition after a in MCD file f, if any, was reached or is the
\* next one of the open file
NextAcquisitionReached(f, a) ==
    LET acqs == Acquisitions(f)
        k == CHOOSE i \in 1..Len(acqs) : acqs[i] = a
    IN k < Len(acqs) =>
         \/ <<f, acqs[k + 1]>> \in visited
         \/ /\ pc = "for_acq"
            /\ mcd_file = Some(f)
            /\ f \in open_mcd
            /\ acq_queue # <<>>
            /\ Head(acq_queue) = acqs[k + 1]

(* C1: for every acquisition whose MCD read raised an I/O error while
   exactly one txt file matched it, and that txt file was read and holds
   every requested channel, exactly one tuple is yielded once its iteration
   is over: the image is the one read from the matched txt file, the
   recovery file is that txt file, and recovered is True. *)
C1_RecoveredFromTxt ==
    \A p \in pairs :
        LET t == p[1]
            f == p[2]
            a == p[3]
        IN (/\ <<"mcd", f, Some(a), "ioerror">> \in reads
            /\ <<"txt", t, None, "ok">> \in reads
            /\ <<"channels", t, None, "lacking">> \notin reads
            /\ ~InProgress(f, a))
           => /\ Cardinality(TuplesFor(f, Some(a))) = 1
              /\ \A i \in TuplesFor(f, Some(a)) :
                    /\ yielded[i].img.src = "txt"
                    /\ yielded[i].img.file = t
                    /\ yielded[i].recovery_file = Some(t)
                    /\ yielded[i].recovered = TRUE

\* a tuple was recovered from a txt file that holds the requested channels
C1_Witness ==
    /\ ~IsNone(channel_names)
    /\ \E i \in 1..Len(yielded) :
          /\ yielded[i].recovered
          /\ <<"mcd", yielded[i].file, yielded[i].acquisition, "ioerror">>
                \in reads

(* C4: every txt file of the input is used at most once: it is in exactly
   one place, waiting in unmatched_txt_files, paired with exactly one
   acquisition, or taken once as a standalone file; standalone files are
   taken only after all MCD files, a standalone file yields at most one
   tuple, and none waits once the generator is exhausted. *)
C4_TxtUsedOnce ==
    \A t \in SeqToSet(txt_files) :
        LET np == Cardinality({p \in pairs : p[1] = t})
            ns == Count(popped, t)
            nu == Count(unmatched_txt_files, t)
        IN /\ np + ns + nu = 1
           /\ Cardinality(TuplesFor(t, None)) <= ns
           /\ ns = 1 => /\ mcd_queue = <<>>
                        /\ pc \in {"while_txt", "txt_read", "yield_txt",
                                   "done"}
           /\ pc = "done" => nu = 0

\* the generator is exhausted, a txt file was paired, another one was
\* processed as a standalone image
C4_Witness ==
    /\ pc = "done"
    /\ pairs # {}
    /\ \E i \in 1..Len(yielded) : yielded[i].acquisition = None

(* C5: when a requested channel is absent from an acquisition, from the
   txt file read to restore an acquisition, or from a standalone txt file,
   a warning is logged, no tuple is yielded for that acquisition or file,
   the next acquisition of the same MCD file is reached, and no later file
   is dropped. *)
C5_MissingChannelSkips ==
    \A r \in reads :
        (r[1] = "channels" /\ r[4] = "lacking") =>
            /\ <<"warning", "channel_not_found", r[2], r[3]>> \in log
            /\ \A i \in 1..Len(yielded) :
                  /\ ~(yielded[i].file = r[2] /\ yielded[i].acquisition = r[3])
                  /\ yielded[i].recovery_file # Some(r[2])
            /\ ~IsNone(r[3]) => NextAcquisitionReached(r[2], Get(r[3]))
            /\ \A p \in pairs :
                  p[1] = r[2] => NextAcquisitionReached(p[2], p[3])
            /\ NothingDropped

\* one run skipped an acquisition, a restore and a standalone txt file for
\* a missing channel, and went on to the end
C5_Witness ==
    /\ pc = "done"
    /\ \E r \in reads :
          r[1] = "channels" /\ r[4] = "lacking" /\ ~IsNone(r[3])
    /\ \E r \in reads :
          /\ r[1] = "channels" /\ r[4] = "lacking" /\ IsNone(r[3])
          /\ r[2] \in SeqToSet(popped)
    /\ \E r \in reads :
          /\ r[1] = "channels" /\ r[4] = "lacking" /\ IsNone(r[3])
          /\ \E p \in pairs : p[1] = r[2]

(* C6: an error raised while opening or reading an MCD file or a
   standalone txt file never reaches the consumer; it is logged, and no
   other MCD file and no still unmatched txt file is dropped because of
   it. *)
C6_ErrorsLoggedNotPropagated ==
    /\ ~propagated
    /\ NothingDropped
    /\ \A r \in reads :
          /\ (r[1] \in {"mcd", "match"} /\ r[4] = "error") =>
                <<"exception", "error_reading_file", r[2], None>> \in log
          /\ (r[1] = "mcd" /\ r[4] = "ioerror") =>
                <<"warning", "error_reading_acquisition", r[2], r[3]>>
                    \in log
          /\ (r[1] = "txt" /\ r[4] = "error") =>
                /\ r[2] \in SeqToSet(popped) =>
                      <<"exception", "error_reading_file", r[2], None>>
                          \in log
                /\ \A p \in pairs : p[1] = r[2] =>
                      <<"exception", "error_reading_file", p[2], None>>
                          \in log

\* the generator is exhausted after an MCD file failed to open, a read of
\* an acquisition raised, a standalone txt file raised, and another file
\* was still yielded
C6_Witness ==
    /\ pc = "done"
    /\ \E r \in reads : r[1] = "mcd" /\ r[4] = "error" /\ IsNone(r[3])
    /\ \E r \in reads : r[1] = "mcd" /\ r[4] = "error" /\ ~IsNone(r[3])
    /\ \E r \in reads :
          r[1] = "txt" /\ r[4] = "error" /\ r[2] \in SeqToSet(popped)
    /\ yielded # <<>>

(* C7: at most one MCD file and at most one txt file are open; the MCD
   file is open exactly while the generator is inside its with-block, a
   txt file exactly while it is read, so each is closed on every way out
   (end, continue, exception) and before the next one is opened; nothing
   is open once the generator is exhausted. *)
C7_ScopedHandles ==
    /\ Cardinality(open_mcd) <= 1
    /\ Cardinality(open_txt) <= 1
    /\ open_mcd = IF pc \in {"for_acq", "read_acq", "recover_open",
                             "recover_read", "yield_acq"}
                  THEN {Get(mcd_file)} ELSE {}
    /\ open_txt = IF pc = "recover_read" THEN {Get(matched_txt_file)}
                  ELSE IF pc = "txt_read" THEN {Get(txt_file)}
                  ELSE {}
    /\ pc = "done" => open_mcd = {} /\ open_txt = {}

\* the generator is exhausted after with-blocks were left by an exception,
\* by continue and normally, and two MCD files were opened
C7_Witness ==
    /\ pc = "done"
    /\ \E r \in reads : r[1] \in {"mcd", "txt"} /\ r[4] = "error"
                        /\ (r[1] = "mcd" => ~IsNone(r[3]))
    /\ \E r \in reads : r[1] = "channels" /\ r[4] = "lacking"
    /\ \E r \in reads : r[1] = "txt" /\ r[4] = "ok"
    /\ yielded # <<>>
    /\ Cardinality(attempted) = 2

\* two MCD files of the input, the stem of one a proper prefix of the
\* stem of the other, that both hold an acquisition id whose two txt
\* exports are in the input
PrefixPairs ==
    {q \in (SeqToSet(mcd_files) \X SeqToSet(mcd_files)) \X (1..MaxAcq) :
        LET s == q[1][1]
            l == q[1][2]
            id == q[2]
        IN /\ IsPrefix(s, l) /\ s # l
           /\ id \in SeqToSet(Acquisitions(s))
           /\ id \in SeqToSet(Acquisitions(l))
           /\ TxtName(s, id) \in SeqToSet(txt_files)
           /\ TxtName(l, id) \in SeqToSet(txt_files)}

\* the txt files of the input whose name matches the pattern of (f, id)
InputCandidates(f, id) ==
    {t \in SeqToSet(txt_files) : PatternMatches(f, id, t)}

\* the MCD file was opened (MCDFile(mcd_file) did not raise)
Opened(f) == f \in attempted /\ <<"mcd", f, None, "error">> \notin reads

(* C8 as stated: for two MCD files, one stem a proper prefix of the other,
   that hold an acquisition of the same id whose txt exports are present,
   each acquisition ends up paired with its own txt export.  Stated for
   the runs in which both files could be opened and the txt files are
   given as str (an ambiguous match then only logs a warning). *)
C8_AsStated ==
    (pc = "done" /\ txt_type = "str") =>
        \A q \in PrefixPairs :
            (Opened(q[1][1]) /\ Opened(q[1][2])) =>
                /\ <<TxtName(q[1][2], q[2]), q[1][2], q[2]>> \in pairs
                /\ <<TxtName(q[1][1], q[2]), q[1][1], q[2]>> \in pairs

(* C8, amended: for two such MCD files, when no other txt file of the
   input matches the pattern of either acquisition and the iteration
   reaches the acquisition of the longer stem, that acquisition is paired
   with the export named after the longer stem; when the iteration reaches
   both acquisitions, the longer stem came first and each acquisition is
   paired with its own export. *)
C8_DescendingOrderPairsOwnExport ==
    \A q \in PrefixPairs :
        LET s == q[1][1]
            l == q[1][2]
            id == q[2]
        IN (/\ InputCandidates(s, id) = {TxtName(s, id), TxtName(l, id)}
            /\ InputCandidates(l, id) = {TxtName(l, id)})
           => /\ <<l, id>> \in visited =>
                    <<TxtName(l, id), l, id>> \in pairs
              /\ <<s, id>> \in visited =>
                    /\ s \notin SeqToSet(mcd_queue)
                    /\ l \notin SeqToSet(mcd_queue)
                    /\ <<l, id>> \in visited =>
                          <<TxtName(s, id), s, id>> \in pairs

\* the MCD files were given in ascending order of stem, and both
\* acquisitions were paired with their own exports
C8_Witness ==
    /\ pc = "done"
    /\ mcd_files = <<Stem_a, Stem_ab>>
    /\ \E q \in PrefixPairs :
          /\ <<TxtName(q[1][2], q[2]), q[1][2], q[2]>> \in pairs
          /\ <<TxtName(q[1][1], q[2]), q[1][1], q[2]>> \in pairs

(* C9: when more than one remaining txt file matches an acquisition, a
   warning is logged and there is no match: no candidate is removed, the
   acquisition goes on to the channel check and the read of the MCD file,
   a tuple yielded for it has recovery file None, and the next acquisition
   of the MCD file is reached. *)
C9_AmbiguousContinuesWithoutMatch ==
    \A r \in reads :
        (r[1] = "match" /\ r[4] = "ambiguous") =>
            LET f == r[2]
                a == Get(r[3])
            IN /\ <<"warning", "ambiguous", f, r[3]>> \in log
               /\ \A p \in pairs : ~(p[2] = f /\ p[3] = a)
               /\ \/ InProgress(f, a)
                  \/ \E o \in {"ok", "ioerror", "error"} :
                        <<"mcd", f, r[3], o>> \in reads
                  \/ <<"channels", f, r[3], "lacking">> \in reads
               /\ \A i \in TuplesFor(f, r[3]) :
                     yielded[i].recovery_file = None
               /\ NextAcquisitionReached(f, a)

(* C10: every yielded tuple: recovered only if it has an acquisition and a
   recovery file and the MCD read of that acquisition raised an I/O error;
   when the MCD read succeeded the image is the one read from the MCD file
   and recovered is False, also when a txt file was matched; a tuple of a
   standalone txt file has acquisition None, recovery file None and
   recovered False. *)
C10_TupleFlags ==
    \A i \in 1..Len(yielded) :
        LET y == yielded[i] IN
        /\ y.recovered =>
              /\ ~IsNone(y.acquisition)
              /\ ~IsNone(y.recovery_file)
              /\ <<"mcd", y.file, y.acquisition, "ioerror">> \in reads
        /\ (~IsNone(y.acquisition)
            /\ <<"mcd", y.file, y.acquisition, "ok">> \in reads) =>
              /\ y.img.src = "mcd"
              /\ y.img.file = y.file
              /\ y.img.acq = y.acquisition
              /\ ~y.recovered
        /\ y.file \in SeqToSet(popped) =>
              /\ IsNone(y.acquisition)
              /\ IsNone(y.recovery_file)
              /\ ~y.recovered

\* a tuple read from the MCD file although a txt file was matched, and a
\* recovered tuple, were yielded
C10_Witness ==
    /\ \E i \in 1..Len(yielded) :
          /\ ~IsNone(yielded[i].recovery_file)
          /\ ~yielded[i].recovered
          /\ yielded[i].img.src = "mcd"
    /\ \E i \in 1..Len(yielded) : yielded[i].recovered

---------------------------------------------------------------------------
(* Properties of the panel constructors *)

\* no two rows of the table carry the same channel id
UniqueChannelIds(rows) ==
    \A i, j \in 1..Len(rows) : i # j => rows[i].channel # rows[j].channel

(* C2: the panel create_panel_from_mcd_files and
   create_panel_from_txt_files return has unique channel ids, also when a
   channel id comes with different names in several acquisitions or
   files. *)
C2_FilePanelUniqueChannelIds ==
    (panel_pc = "returned" /\ panel_in.kind \in {"mcd", "txt"}) =>
        UniqueChannelIds(Get(panel_out).panel.rows)

(* C3: the panel create_panel_from_imc_panel returns has exactly one row
   per distinct channel id of the input, also when several rows of the
   input share a channel id. *)
C3_ImcPanelUniqueChannelIds ==
    (panel_pc = "returned" /\ panel_in.kind = "imc") =>
        LET rows == Get(panel_out).panel.rows
            input == panel_in.tables[1]
        IN /\ UniqueChannelIds(rows)
           /\ {rows[i].channel : i \in 1..Len(rows)}
                 = {input[i].channel : i \in 1..Len(input)}

\* a panel was returned for an input in which two rows share a channel id
C3_Witness ==
    /\ panel_pc = "returned"
    /\ panel_in.kind = "imc"
    /\ ~UniqueChannelIds(panel_in.tables[1])
    /\ Len(Get(panel_out).panel.rows) >= 1

\* create_panel_from_imc_panel returned a panel
ImcReturned == panel_pc = "returned" /\ panel_in.kind = "imc"

\* the positions of the rows of a table that carry the channel id c
RowsOf(rows, c) == {i \in 1..Len(rows) : rows[i].channel = c}

\* the position at which the name n occurs first among the rows of c
FirstAt(rows, c, n) ==
    CHOOSE i \in RowsOf(rows, c) :
        /\ rows[i].name = Some(n)
        /\ \A j \in RowsOf(rows, c) : rows[j].name = Some(n) => i <= j

(* C11: create_panel_from_imc_panel merges the rows of the input that
   share a channel id into one row: its name is the distinct non-missing
   names of those rows joined with " / " in the order of their first
   occurrence, its keep flag is true iff one of the rows has keep true, and
   its ilastik flag is set iff one of the rows has ilastik true; the
   returned panel holds that one row for the channel, with the keep flag
   and with an ilastik value iff the flag is set. *)
C11_MergedRowOfChannel ==
    ImcReturned =>
        LET input == panel_in.tables[1]
            merged == Get(panel_merged)
            out == Get(panel_out).panel.rows
        IN \A c \in {input[i].channel : i \in 1..Len(input)} :
            LET g == RowsOf(input, c)
                names == {Get(input[i].name) :
                             i \in {j \in g : ~IsNone(input[j].name)}}
                anyKeep == \E i \in g : input[i].keep = Some(TRUE)
                anyIlastik == \E i \in g : input[i].ilastik = Some(1)
            IN /\ Cardinality(RowsOf(merged, c)) = 1
               /\ Cardinality(RowsOf(out, c)) = 1
               /\ \A i \in RowsOf(merged, c) :
                    /\ \E ns \in DistinctSeqs(names, Cardinality(names)) :
                          /\ Len(ns) = Cardinality(names)
                          /\ \A x, y \in 1..Len(ns) :
                                x < y => FirstAt(input, c, ns[x])
                                            < FirstAt(input, c, ns[y])
                          /\ merged[i].name = Some(JoinNames(ns))
                    /\ (merged[i].keep = Some(TRUE)) <=> anyKeep
                    /\ (merged[i].ilastik = Some(1)) <=> anyIlastik
               /\ \A i \in RowsOf(out, c) :
                    /\ "keep" \in panel_in.cols =>
                          ((out[i].keep = Some(TRUE)) <=> anyKeep)
                    /\ "ilastik" \in panel_in.cols =>
                          (~IsNone(out[i].ilastik) <=> anyIlastik)

\* a panel was returned for two rows of one channel that differ in name,
\* keep and ilastik, the second name merged behind the first
C11_Witness ==
    /\ ImcReturned
    /\ panel_in.cols = {"channel", "name", "keep", "ilastik"}
    /\ panel_in.tables[1] = <<Row(Some(Y89), Some(<<"B">>), Some(FALSE), Some(1)),
                              Row(Some(Y89), Some(<<"A">>), Some(TRUE), Some(0))>>
    /\ Get(panel_merged)[1].name = Some(<<"B", " ", "/", " ", "A">>)
    /\ Get(panel_out).panel.rows[1].keep = Some(TRUE)
    /\ Get(panel_out).panel.rows[1].ilastik = Some(1)

\* the cell of a column in a row
CellOf(r, col) ==
    CASE col = "channel" -> r.channel
      [] col = "name" -> r.name
      [] col = "keep" -> r.keep
      [] col = "ilastik" -> r.ilastik

\* the input has the column and a missing value in it
HasMissingValue(col) ==
    /\ col \in panel_in.cols
    /\ \E i \in 1..Len(panel_in.tables[1]) :
          IsNone(CellOf(panel_in.tables[1][i], col))

(* C12: create_panel_from_imc_panel raises
   SteinbockIMCPreprocessingException, and returns no panel, when the
   channel or the name column is missing from the input or when the
   channel, keep or ilastik column is present and holds a missing value;
   for an input with both required columns and no missing value in these
   three columns it raises no such exception and returns a panel. *)
C12_RaisesOnMissing ==
    (panel_in.kind = "imc" /\ panel_pc # "call") =>
        LET rejected ==
                \/ "channel" \notin panel_in.cols
                \/ "name" \notin panel_in.cols
                \/ HasMissingValue("channel")
                \/ HasMissingValue("keep")
                \/ HasMissingValue("ilastik")
        IN /\ rejected => (panel_pc = "raised" /\ panel_out = Raised)
           /\ ~rejected => (panel_pc = "returned"
                            /\ ~Get(panel_out).raised)

\* the exception was raised for an input that has all four columns and a
\* missing value in the keep column
C12_Witness ==
    /\ panel_in.kind = "imc"
    /\ panel_pc = "raised"
    /\ panel_in.cols = {"channel", "name", "keep", "ilastik"}
    /\ HasMissingValue("keep")
    /\ ~HasMissingValue("channel")
    /\ ~HasMissingValue("ilastik")

(* C13: in the panel create_panel_from_imc_panel returns, the rows selected
   for ilastik carry the values 1, 2, ..., k in row order (k the number of
   selected rows), without gap or repeat, and every other row has a missing
   ilastik value; the selected rows are the channels with an ilastik flag
   set in the input, and the rows with keep true when the input has no
   ilastik column. *)
C13_IlastikNumbering ==
    ImcReturned =>
        LET input == panel_in.tables[1]
            out == Get(panel_out).panel.rows
            numbered == {i \in 1..Len(out) : ~IsNone(out[i].ilastik)}
            flagged == {i \in 1..Len(out) :
                           \E j \in RowsOf(input, out[i].channel) :
                               input[j].ilastik = Some(1)}
            kept == {i \in 1..Len(out) : out[i].keep = Some(TRUE)}
        IN /\ \A i \in numbered :
                Get(out[i].ilastik)
                    = Cardinality({j \in numbered : j <= i})
           /\ {Get(out[i].ilastik) : i \in numbered}
                 = 1..Cardinality(numbered)
           /\ numbered = IF "ilastik" \in panel_in.cols THEN flagged
                         ELSE kept

\* a panel with two selected channels, numbered 1 and 2, was returned
C13_Witness ==
    /\ ImcReturned
    /\ "ilastik" \in panel_in.cols
    /\ Len(Get(panel_out).panel.rows) = 2
    /\ Get(panel_out).panel.rows[1].ilastik = Some(1)
    /\ Get(panel_out).panel.rows[2].ilastik = Some(2)

\* a panel was returned for an input without ilastik column: one row is
\* kept and numbered, the other is not kept and has no number
C13_WitnessNoColumn ==
    /\ ImcReturned
    /\ panel_in.cols = {"channel", "name", "keep"}
    /\ \E i, j \in 1..Len(Get(panel_out).panel.rows) :
          /\ Get(panel_out).panel.rows[i].keep = Some(FALSE)
          /\ Get(panel_out).panel.rows[i].ilastik = None
          /\ Get(panel_out).panel.rows[j].keep = Some(TRUE)
          /\ Get(panel_out).panel.rows[j].ilastik = Some(1)

\* a panel constructor returned a panel
PanelReturned == panel_pc = "returned"

\* the table the constructor handed to _clean_panel
CleanPanelInput ==
    IF panel_in.kind = "imc" THEN Get(panel_merged)
    ELSE ConcatPanel(panel_in.tables).rows

\* _clean_panel left the rows of its input sorted by the number the digits
\* of the channel id form
SortedByChannelNumber ==
    LET pre == CleanPanelInput
        sorted == Get(panel_sorted)
        n == Len(sorted)
    IN /\ Len(pre) = n
       /\ \E o \in [1..n -> 1..n] :
             /\ \A i, j \in 1..n : i # j => o[i] # o[j]
             /\ \A i \in 1..n : sorted[i] = pre[o[i]]
       /\ \A i, j \in 1..n :
             i < j => Get(ChannelNumber(Get(sorted[i].channel)))
                         <= Get(ChannelNumber(Get(sorted[j].channel)))

\* a name of one row is unchanged, a name of n > 1 rows got the suffixes
\* " 1", ..., " n" in sorted row order
NamesReconciled ==
    LET sorted == Get(panel_sorted)
        out == Get(panel_out).panel.rows
    IN /\ Len(out) = Len(sorted)
       /\ \A i \in 1..Len(sorted) :
            LET same == {j \in 1..Len(sorted) :
                            sorted[j].name = sorted[i].name}
                rank == Cardinality({j \in same : j <= i})
            IN /\ out[i].channel = sorted[i].channel
               /\ out[i].name =
                    IF Cardinality(same) = 1 THEN sorted[i].name
                    ELSE Some(Get(sorted[i].name) \o <<" ">>
                              \o IntToStr(rank))

\* every display name of the returned panel is distinct
DistinctNames ==
    LET out == Get(panel_out).panel.rows
    IN \A i, j \in 1..Len(out) : i # j => out[i].name # out[j].name

(* C14: _clean_panel sorts the rows by the number formed by the digits of
   the channel id and reconciles the display names: a name carried by one
   row is unchanged, a name carried by n > 1 rows is replaced in those
   rows by the name followed by " 1", ..., " n" in sorted row order; after
   cleaning, every display name of the panel is distinct. *)
C14_CleanPanel ==
    PanelReturned =>
        /\ SortedByChannelNumber
        /\ NamesReconciled
        /\ DistinctNames

(* The part of C14 without the last sentence: the sort and the suffixes *)
C14_SortedAndSuffixed ==
    PanelReturned => (SortedByChannelNumber /\ NamesReconciled)

\* a panel was returned in which two rows shared a name and got suffixes
C14_WitnessSuffixed ==
    /\ PanelReturned
    /\ \E i, j \in 1..Len(Get(panel_sorted)) :
          /\ i < j
          /\ Get(panel_sorted)[i].name = Get(panel_sorted)[j].name
          /\ Get(panel_out).panel.rows[i].name # Get(panel_sorted)[i].name

---------------------------------------------------------------------------
(* Termination and order of try_preprocess_images_from_disk *)

\* a step that takes the next MCD file takes one that was not taken before
\* and shortens the iteration
McdFileVisitedOnce ==
    (pc = "for_mcd" /\ mcd_queue # <<>>) =>
        /\ Get(mcd_file') \notin attempted
        /\ Len(mcd_queue') = Len(mcd_queue) - 1

\* a step that takes the next acquisition of the open file takes one that
\* was not taken before and shortens the iteration
AcquisitionVisitedOnce ==
    (pc = "for_acq" /\ acq_queue # <<>>) =>
        /\ <<Get(mcd_file), Get(acquisition')>> \notin visited
        /\ Len(acq_queue') = Len(acq_queue) - 1

\* an iteration of the trailing loop removes one txt file, whichever path
\* it takes afterwards
TxtLoopRemovesOne ==
    (pc = "while_txt" /\ unmatched_txt_files # <<>>) =>
        /\ Len(unmatched_txt_files') = Len(unmatched_txt_files) - 1
        /\ Get(txt_file') \notin SeqToSet(popped)
\* ... and no step of the trailing loop puts a file back
TxtLoopNeverGrows ==
    pc \in {"while_txt", "txt_read", "yield_txt"} =>
        Len(unmatched_txt_files') <= Len(unmatched_txt_files)

\* the generator is exhausted: every MCD file was taken, no txt file is left
Exhausted ==
    /\ pc = "done"
    /\ attempted = SeqToSet(mcd_files)
    /\ mcd_queue = <<>>
    /\ unmatched_txt_files = <<>>

(* C15: try_preprocess_images_from_disk terminates for every finite list of
   MCD and txt files: each MCD file and each of its acquisitions is visited
   once, every iteration of the trailing loop removes one unmatched txt
   file on every path (success, missing-channel skip, exception), and the
   generator is exhausted after finitely many steps. *)
C15_Terminates ==
    /\ <>Exhausted
    /\ [][/\ McdFileVisitedOnce
          /\ AcquisitionVisitedOnce
          /\ TxtLoopRemovesOne
          /\ TxtLoopNeverGrows]_vars

\* the generator is exhausted after the trailing loop skipped one txt file
\* for a missing channel and left another one by an exception, and an MCD
\* acquisition was yielded
C15_Witness ==
    /\ Exhausted
    /\ Len(popped) = 2
    /\ \E t \in SeqToSet(popped) :
          <<"warning", "channel_not_found", t, None>> \in log
    /\ \E t \in SeqToSet(popped) : <<"txt", t, None, "error">> \in reads
    /\ \E i \in 1..Len(yielded) : ~IsNone(yielded[i].acquisition)

\* the tuple stems from an MCD acquisition (read from the MCD file or
\* recovered from its txt export), not from a standalone txt file
FromMcd(y) == ~IsNone(y.acquisition)

\* the position of a txt file in the input list
PositionIn(list, x) == CHOOSE i \in 1..Len(list) : list[i] = x

(* C16: the yielded tuples are ordered: every tuple that stems from an MCD
   acquisition comes before every tuple of a standalone txt file, the MCD
   tuples come in descending order of the stem of their MCD file, and the
   standalone txt tuples come in the order their files have in the input
   list. *)
C16_YieldOrder ==
    \A i, j \in 1..Len(yielded) :
        i < j =>
            LET y == yielded[i]
                z == yielded[j]
            IN /\ FromMcd(z) => FromMcd(y)
               /\ (FromMcd(y) /\ FromMcd(z)) => ~StrLess(y.file, z.file)
               /\ (~FromMcd(y) /\ ~FromMcd(z)) =>
                     PositionIn(txt_files, y.file)
                        < PositionIn(txt_files, z.file)

\* tuples of both MCD files and of two standalone txt files were yielded,
\* although the input list names the shorter stem first
C16_Witness ==
    /\ mcd_files = <<Stem_a, Stem_ab>>
    /\ Len(yielded) >= 4
    /\ \E i, j \in 1..Len(yielded) :
          /\ i < j
          /\ FromMcd(yielded[i]) /\ yielded[i].file = Stem_ab
          /\ FromMcd(yielded[j]) /\ yielded[j].file = Stem_a
    /\ \E i, j \in 1..Len(yielded) :
          /\ i < j
          /\ ~FromMcd(yielded[i]) /\ ~FromMcd(yielded[j])

====
